---------------------------- MODULE Spec2Model ----------------------------
(***************************************************************************)
(* Model of the TCA8418 keypad/GPIO expander driver (adafruit_tca8418.py). *)
(*                                                                         *)
(* The chip is the environment: a register file, a key-event FIFO and an   *)
(* interrupt-status register with write-1-to-clear bits.  The driver is    *)
(* the program: every register access goes through _read_reg/_write_reg,   *)
(* and every access is appended to a transport log.                        *)
(*                                                                         *)
(* Six specifications share the variables:                                 *)
(*   Spec      construction of the TCA8418 object (__init__), statement by *)
(*             statement, while the chip may still log key events;         *)
(*   SpecLive  Spec with the statements of __init__ executed fairly;       *)
(*   SpecBank  get/set and integer conversion on the register banks of a   *)
(*             constructed device;                                         *)
(*   SpecFifo  the event FIFO and the interrupt-status flags of a          *)
(*             constructed device that routes events to the FIFO;          *)
(*   SpecPin   a DigitalInOut pin handle of a constructed device;          *)
(*   SpecRace  two execution contexts inside _set_reg_bit.                 *)
(***************************************************************************)
EXTENDS Integers, Sequences, FiniteSets

VARIABLES
    regs,      \* the chip's register file: address -> byte
    fifo,      \* the chip's key-event FIFO, oldest entry first
    pc,        \* position of the driver: a statement of __init__, or "ready"
    log,       \* transport accesses of the running / last operation
    last,      \* the last driver operation and its arguments
    result,    \* what the last operation returned or raised
    ops,       \* number of budgeted operations performed
    logged,    \* history: every event the chip ever put in the FIFO
    returned,  \* history: every value a successful next_event returned
    prev,      \* history: the register file when the last operation started
    handle,    \* the DigitalInOut object get_pin returned: its pin and its _dir
    ctx        \* the execution contexts inside _set_reg_bit and their locals

vars == <<regs, fifo, pc, log, last, result, ops, logged, returned, prev,
          handle, ctx>>

-----------------------------------------------------------------------------
(* Bounds of the model *)

\* budgeted driver operations per behaviour of SpecBank / SpecFifo
MaxOps == 1
\* events the chip logs in one behaviour, the ones pending at start included
MaxLogged == 3

-----------------------------------------------------------------------------
(* Register map *)

REG_CONFIG == 1
REG_INTSTAT == 2
REG_KEYLCKEC == 3
REG_KEYEVENT == 4
REG_GPIOINTSTAT1 == 17
REG_GPIODATSTAT1 == 20
REG_GPIODATOUT1 == 23
REG_INTEN1 == 26
REG_KPGPIO1 == 29
REG_EVTMODE1 == 32
REG_GPIODIR1 == 35
REG_INTLVL1 == 38
REG_DEBOUNCEDIS1 == 41
REG_GPIOPULL1 == 44

\* every register address the model holds: 0x01..0x04 and 0x11..0x2E
RegAddrs == (REG_CONFIG .. REG_KEYEVENT) \cup (REG_GPIOINTSTAT1 .. (REG_GPIOPULL1 + 2))

Byte == 0..255

-----------------------------------------------------------------------------
(* Bit arithmetic on bytes, as Python's |, & and ~ act on them *)

Pow2(i) == 2 ^ i

\* bool(x & (1 << i))
TestBit(x, i) == (x \div Pow2(i)) % 2 = 1

\* x | (1 << i)
OrBit(x, i) == IF TestBit(x, i) THEN x ELSE x + Pow2(i)

\* x & ~(1 << i)
AndNotBit(x, i) == IF TestBit(x, i) THEN x - Pow2(i) ELSE x

RECURSIVE AndNotFrom(_, _, _)
AndNotFrom(x, y, i) ==
    IF i > 7 THEN 0
    ELSE (IF TestBit(x, i) /\ ~TestBit(y, i) THEN Pow2(i) ELSE 0)
         + AndNotFrom(x, y, i + 1)

\* x & ~y on bytes
AndNot(x, y) == AndNotFrom(x, y, 0)

-----------------------------------------------------------------------------
(* The chip, seen from the bus.  A machine m is [regs, fifo, log].         *)

\* registers the chip owns: writes from the bus do not change them
HwOwned ==
    {REG_KEYLCKEC, REG_KEYEVENT}
    \cup (REG_GPIOINTSTAT1 .. (REG_GPIOINTSTAT1 + 2))
    \cup (REG_GPIODATSTAT1 .. (REG_GPIODATSTAT1 + 2))

\* the byte a bus read of addr returns
HwReadValue(m, addr) ==
    IF addr = REG_KEYEVENT
    THEN (IF m.fifo = <<>> THEN 0 ELSE Head(m.fifo))
    ELSE IF addr = REG_KEYLCKEC
    THEN m.regs[REG_KEYLCKEC] + Len(m.fifo)
    ELSE m.regs[addr]

\* the chip after a bus read of addr: the FIFO register pops its oldest
\* entry, the GPIO interrupt status registers clear on read
HwAfterRead(m, addr) ==
    IF addr = REG_KEYEVENT
    THEN [m EXCEPT !.fifo = IF m.fifo = <<>> THEN <<>> ELSE Tail(m.fifo)]
    ELSE IF addr \in REG_GPIOINTSTAT1 .. (REG_GPIOINTSTAT1 + 2)
    THEN [m EXCEPT !.regs[addr] = 0]
    ELSE m

\* the chip after a bus write of val to addr: the interrupt status register
\* clears the bits written as 1
HwAfterWrite(m, addr, val) ==
    IF addr = REG_INTSTAT
    THEN [m EXCEPT !.regs[addr] = AndNot(m.regs[addr], val)]
    ELSE IF addr \in HwOwned
    THEN m
    ELSE [m EXCEPT !.regs[addr] = val]

-----------------------------------------------------------------------------
(* Transport: TCA8418._read_reg / _write_reg *)

ReadReg(m, addr) ==
    [val |-> HwReadValue(m, addr),
     m   |-> [HwAfterRead(m, addr) EXCEPT !.log = Append(@, <<"R", addr>>)]]

WriteReg(m, addr, val) ==
    [HwAfterWrite(m, addr, val) EXCEPT !.log = Append(@, <<"W", addr>>)]

(* Register helpers: TCA8418._set_reg_bit / _get_reg_bit *)

\* SetRegBit with the read byte dropped: only the target bit is written
SetRegBit_Overwrite(m, addr, bitoffset, value) ==
    LET r == ReadReg(m, addr)
    IN  WriteReg(r.m, addr, IF value THEN Pow2(bitoffset) ELSE 0)

SetRegBit(m, addr, bitoffset, value) ==
    LET r    == ReadReg(m, addr)
        temp == IF value THEN OrBit(r.val, bitoffset) ELSE AndNotBit(r.val, bitoffset)
    IN  WriteReg(r.m, addr, temp)

GetRegBit(m, addr, bitoffset) ==
    LET r == ReadReg(m, addr)
    IN  [val |-> TestBit(r.val, bitoffset), m |-> r.m]

(* TCA8418._set_gpio_register / _get_gpio_register.  A call returns        *)
(* [err, val, m]: err is "none" or the exception raised.                   *)

PinInRange(pin_number) == 0 <= pin_number /\ pin_number <= 17

\* SetGpioRegister with the upper limit of the range check off by one
SetGpioRegister_OffByOne(m, reg_base_addr, pin_number, value) ==
    IF ~(0 <= pin_number /\ pin_number <= 18)
    THEN [err |-> "ValueError", val |-> FALSE, m |-> m]
    ELSE [err |-> "none", val |-> FALSE,
          m   |-> SetRegBit(m, reg_base_addr + (pin_number \div 8),
                            pin_number % 8, value)]

SetGpioRegister(m, reg_base_addr, pin_number, value) ==
    IF ~PinInRange(pin_number)
    THEN [err |-> "ValueError", val |-> FALSE, m |-> m]
    ELSE [err |-> "none", val |-> FALSE,
          m   |-> SetRegBit(m, reg_base_addr + (pin_number \div 8),
                            pin_number % 8, value)]

\* GetGpioRegister taking six pins per register
GetGpioRegister_SixPerReg(m, reg_base_addr, pin_number) ==
    IF ~PinInRange(pin_number)
    THEN [err |-> "ValueError", val |-> FALSE, m |-> m]
    ELSE LET r == GetRegBit(m, reg_base_addr + (pin_number \div 6), pin_number % 6)
         IN  [err |-> "none", val |-> r.val, m |-> r.m]

GetGpioRegister(m, reg_base_addr, pin_number) ==
    IF ~PinInRange(pin_number)
    THEN [err |-> "ValueError", val |-> FALSE, m |-> m]
    ELSE LET r == GetRegBit(m, reg_base_addr + (pin_number \div 8), pin_number % 8)
         IN  [err |-> "none", val |-> r.val, m |-> r.m]

-----------------------------------------------------------------------------
(* The register banks as TCA8418.__init__ constructs them.  hasInit tells  *)
(* whether initial_value is given (it is 0 wherever it is).                *)

Bank ==
    [enable_int      |-> [base |-> REG_INTEN1, invert |-> FALSE, ro |-> FALSE,
                          hasInit |-> TRUE, initial |-> 0],
     gpio_int_status |-> [base |-> REG_GPIOINTSTAT1, invert |-> FALSE, ro |-> TRUE,
                          hasInit |-> FALSE, initial |-> 0],
     gpio_direction  |-> [base |-> REG_GPIODIR1, invert |-> FALSE, ro |-> FALSE,
                          hasInit |-> TRUE, initial |-> 0],
     gpio_mode       |-> [base |-> REG_KPGPIO1, invert |-> TRUE, ro |-> FALSE,
                          hasInit |-> TRUE, initial |-> 0],
     keypad_mode     |-> [base |-> REG_KPGPIO1, invert |-> FALSE, ro |-> FALSE,
                          hasInit |-> FALSE, initial |-> 0],
     output_value    |-> [base |-> REG_GPIODATOUT1, invert |-> FALSE, ro |-> FALSE,
                          hasInit |-> TRUE, initial |-> 0],
     input_value     |-> [base |-> REG_GPIODATSTAT1, invert |-> FALSE, ro |-> TRUE,
                          hasInit |-> FALSE, initial |-> 0],
     pullup          |-> [base |-> REG_GPIOPULL1, invert |-> TRUE, ro |-> FALSE,
                          hasInit |-> TRUE, initial |-> 0],
     debounce        |-> [base |-> REG_DEBOUNCEDIS1, invert |-> TRUE, ro |-> FALSE,
                          hasInit |-> TRUE, initial |-> 0],
     int_on_rising   |-> [base |-> REG_INTLVL1, invert |-> FALSE, ro |-> FALSE,
                          hasInit |-> TRUE, initial |-> 0],
     event_mode_fifo |-> [base |-> REG_EVTMODE1, invert |-> FALSE, ro |-> FALSE,
                          hasInit |-> TRUE, initial |-> 0]]

BankNames == DOMAIN Bank

WritableBanks == {b \in BankNames : ~Bank[b].ro}

ReadOnlyBanks == {b \in BankNames : Bank[b].ro}

\* RegisterInit with the third register left out
RegisterInit_TwoWrites(m, bk) ==
    IF ~bk.ro /\ bk.hasInit
    THEN WriteReg(WriteReg(m, bk.base, bk.initial), bk.base + 1, bk.initial)
    ELSE m

(* TCA8418_register.__init__ *)
RegisterInit(m, bk) ==
    IF ~bk.ro /\ bk.hasInit
    THEN WriteReg(WriteReg(WriteReg(m, bk.base, bk.initial),
                           bk.base + 1, bk.initial),
                  bk.base + 2, bk.initial)
    ELSE m

\* RegisterIndex without the mask to 18 bits
RegisterIndex_NoMask(m, bk) ==
    LET r2 == ReadReg(m, bk.base + 2)
        r1 == ReadReg(r2.m, bk.base + 1)
        r0 == ReadReg(r1.m, bk.base)
    IN  [err |-> "none",
         val |-> ((r2.val * 256) + r1.val) * 256 + r0.val,
         m   |-> r0.m]

(* TCA8418_register.__index__ *)
RegisterIndex(m, bk) ==
    LET r2 == ReadReg(m, bk.base + 2)
        r1 == ReadReg(r2.m, bk.base + 1)
        r0 == ReadReg(r1.m, bk.base)
    IN  [err |-> "none",
         val |-> (((r2.val * 256) + r1.val) * 256 + r0.val) % 262144,
         m   |-> r0.m]

\* RegisterGetItem without the inversion
RegisterGetItem_NoInvert(m, bk, pin_number) ==
    GetGpioRegister(m, bk.base, pin_number)

(* TCA8418_register.__getitem__ *)
RegisterGetItem(m, bk, pin_number) ==
    LET r == GetGpioRegister(m, bk.base, pin_number)
    IN  IF r.err # "none" THEN r
        ELSE [r EXCEPT !.val = IF bk.invert THEN ~r.val ELSE r.val]

\* RegisterSetItem without the inversion
RegisterSetItem_NoInvert(m, bk, pin_number, value) ==
    IF bk.ro
    THEN [err |-> "NotImplementedError", val |-> FALSE, m |-> m]
    ELSE SetGpioRegister(m, bk.base, pin_number, value)

\* RegisterSetItem without the read-only check
RegisterSetItem_NoRoCheck(m, bk, pin_number, value) ==
    SetGpioRegister(m, bk.base, pin_number,
                    IF bk.invert THEN ~value ELSE value)

(* TCA8418_register.__setitem__ *)
RegisterSetItem(m, bk, pin_number, value) ==
    IF bk.ro
    THEN [err |-> "NotImplementedError", val |-> FALSE, m |-> m]
    ELSE SetGpioRegister(m, bk.base, pin_number,
                         IF bk.invert THEN ~value ELSE value)

-----------------------------------------------------------------------------
(* Single-register fields of TCA8418 *)

\* events_count = ROBits(4, _TCA8418_REG_KEYLCKEC, 0)
EventsCount(m) ==
    LET r == ReadReg(m, REG_KEYLCKEC)
    IN  [err |-> "none", val |-> r.val % 16, m |-> r.m]

\* the bit of the interrupt status register behind each RWBit flag
FlagBit ==
    [key_int |-> 0, gpi_int |-> 1, keylock_int |-> 2, overflow_int |-> 3,
     cad_int |-> 4]

Flags == DOMAIN FlagBit

\* reading an RWBit: one register read, the bit tested
RWBitGet(m, addr, bit) ==
    LET r == ReadReg(m, addr)
    IN  [err |-> "none", val |-> TestBit(r.val, bit), m |-> r.m]

\* assigning an RWBit: the register is read, the bit set or cleared in the
\* byte read, and the whole byte written back
RWBitSet(m, addr, bit, value) ==
    LET r    == ReadReg(m, addr)
        temp == IF value THEN OrBit(r.val, bit) ELSE AndNotBit(r.val, bit)
    IN  [err |-> "none", val |-> FALSE, m |-> WriteReg(r.m, addr, temp)]

\* NextEvent without the test of events_count
NextEvent_NoCheck(m) ==
    LET c == EventsCount(m)
        r == ReadReg(c.m, REG_KEYEVENT)
    IN  [err |-> "none", val |-> r.val, m |-> r.m]

\* NextEvent reading the FIFO register a second time for its result
NextEvent_DoubleRead(m) ==
    LET c == EventsCount(m)
    IN  IF c.val = 0
        THEN [err |-> "RuntimeError", val |-> 0, m |-> c.m]
        ELSE LET r1 == ReadReg(c.m, REG_KEYEVENT)
                 r2 == ReadReg(r1.m, REG_KEYEVENT)
             IN  [err |-> "none", val |-> r2.val, m |-> r2.m]

(* TCA8418.next_event *)
NextEvent(m) ==
    LET c == EventsCount(m)
    IN  IF c.val = 0
        THEN [err |-> "RuntimeError", val |-> 0, m |-> c.m]
        ELSE LET r == ReadReg(c.m, REG_KEYEVENT)
             IN  [err |-> "none", val |-> r.val, m |-> r.m]

-----------------------------------------------------------------------------
(* TCA8418.__init__, statement by statement *)

\* the banks in the order __init__ constructs them
ConstructOrder ==
    <<"enable_int", "gpio_int_status", "gpio_direction", "gpio_mode",
      "keypad_mode", "output_value", "input_value", "pullup", "debounce",
      "int_on_rising", "event_mode_fifo">>

\* AfterRegister with the drain loop moved before the construction of
\* event_mode_fifo
AfterRegister_DrainEarly(b) ==
    IF b = "gpio_int_status" THEN "discard"
    ELSE IF b = "int_on_rising" THEN "drain"
    ELSE IF b = "event_mode_fifo" THEN "reset"
    ELSE LET i == CHOOSE k \in 1..Len(ConstructOrder) : ConstructOrder[k] = b
         IN  ConstructOrder[i + 1]

\* the statement that follows the construction of a bank
AfterRegister(b) ==
    IF b = "gpio_int_status" THEN "discard"
    ELSE IF b = "event_mode_fifo" THEN "drain"
    ELSE LET i == CHOOSE k \in 1..Len(ConstructOrder) : ConstructOrder[k] = b
         IN  ConstructOrder[i + 1]

\* `_ = self.gpio_int_status`: the bank object is bound to a name; it is not
\* converted to an integer, so no register is read
InitDiscardStatus(m) == m

\* InitDrainStep leaving the loop after the first event: `if` for `while`
InitDrainStep_Once(m) ==
    LET c == EventsCount(m)
    IN  IF c.val = 0 \/ \E i \in DOMAIN m.log : m.log[i] = <<"R", REG_KEYEVENT>>
        THEN [done |-> TRUE, err |-> "none", val |-> 0, m |-> c.m]
        ELSE LET n == NextEvent(c.m)
             IN  [done |-> FALSE, err |-> n.err, val |-> n.val, m |-> n.m]

\* one test of `while self.events_count:` and, when it passes, the body
InitDrainStep(m) ==
    LET c == EventsCount(m)
    IN  IF c.val = 0
        THEN [done |-> TRUE, err |-> "none", val |-> 0, m |-> c.m]
        ELSE LET n == NextEvent(c.m)
             IN  [done |-> FALSE, err |-> n.err, val |-> n.val, m |-> n.m]

\* InitResetInterrupts with a pattern that misses the GPI flag
InitResetInterrupts_Partial(m) == WriteReg(m, REG_INTSTAT, 29)

\* self._write_reg(_TCA8418_REG_INTSTAT, 0x1F)
InitResetInterrupts(m) == WriteReg(m, REG_INTSTAT, 31)

\* self.gpi_int = False
InitClearGpi(m) == RWBitSet(m, REG_INTSTAT, FlagBit.gpi_int, FALSE).m

RECURSIVE InitRegisters(_, _)
InitRegisters(m, i) ==
    IF i > Len(ConstructOrder) THEN m
    ELSE InitRegisters(
             LET b  == ConstructOrder[i]
                 m1 == RegisterInit(m, Bank[b])
             IN  IF b = "gpio_int_status" THEN InitDiscardStatus(m1) ELSE m1,
             i + 1)

RECURSIVE InitDrain(_)
InitDrain(m) ==
    LET s == InitDrainStep(m)
    IN  IF s.done \/ s.err # "none" THEN s.m ELSE InitDrain(s.m)

\* the whole constructor, run without the chip logging anything meanwhile
TCA8418Init(m) ==
    InitClearGpi(InitResetInterrupts(InitDrain(InitRegisters(m, 1))))

-----------------------------------------------------------------------------
(* States of the chip when the driver is constructed: whatever an earlier  *)
(* session left behind.                                                    *)

\* register fill patterns: all zero, all ones, and a mixed pattern that
\* differs from address to address
RegSeeds == {0, 255, 165}

IntSeeds == {0, 31, 21}

KeyEvents == {1, 129}

SeedByte(seed, addr) ==
    IF seed \in {0, 255} THEN seed ELSE (seed * addr) % 256

PowerUpRegs(seed, ints) ==
    [a \in RegAddrs |->
        IF a = REG_INTSTAT THEN ints
        ELSE IF a = REG_KEYLCKEC THEN (seed % 4) * 16
        ELSE IF a = REG_KEYEVENT THEN 0
        ELSE IF a = REG_CONFIG THEN seed % 128
        ELSE SeedByte(seed, a)]

SeqsUpTo(S, n) == UNION {[1..k -> S] : k \in 0..n}

Machine == [regs |-> regs, fifo |-> fifo, log |-> log]

\* the machine as an operation finds it: the log starts empty
Fresh == [regs |-> regs, fifo |-> fifo, log |-> <<>>]

NoOp == [op |-> "none", bank |-> "none", pin |-> 0, val |-> FALSE]

NoResult == [err |-> "none", val |-> FALSE]

\* no DigitalInOut object exists yet
NoHandle == [bound |-> FALSE, pin |-> 0, dir |-> "unset"]

\* no execution context is inside _set_reg_bit
NoCtx == <<>>

-----------------------------------------------------------------------------
(* The chip logs an event: only while some pin is routed to the FIFO, as a *)
(* keypad pin or as a GPIO pin in event mode.                              *)

KeypadRouted(r) == \E k \in 0..2 : r[REG_KPGPIO1 + k] # 0

GpiRouted(r) ==
    \E k \in 0..2 : \E i \in 0..7 :
        TestBit(r[REG_EVTMODE1 + k], i) /\ ~TestBit(r[REG_KPGPIO1 + k], i)

HwLogEvent(e) ==
    /\ Len(logged) < MaxLogged
    /\ \E f \in {"key_int", "gpi_int"} :
          /\ IF f = "key_int" THEN KeypadRouted(regs) ELSE GpiRouted(regs)
          /\ regs' = [regs EXCEPT ![REG_INTSTAT] = OrBit(@, FlagBit[f])]
    /\ fifo' = Append(fifo, e)
    /\ logged' = Append(logged, e)
    /\ UNCHANGED <<handle, ctx, pc, log, last, result, ops, returned, prev>>

-----------------------------------------------------------------------------
(* Spec: construction of the driver object *)

Init ==
    /\ \E seed \in RegSeeds, ints \in IntSeeds : regs = PowerUpRegs(seed, ints)
    /\ fifo \in SeqsUpTo(KeyEvents, MaxLogged)
    /\ pc = "enable_int"
    /\ log = <<>>
    /\ last = [NoOp EXCEPT !.op = "__init__"]
    /\ result = NoResult
    /\ ops = 0
    /\ logged = fifo
    /\ returned = <<>>
    /\ prev = regs
    /\ handle = NoHandle
    /\ ctx = NoCtx

\* self.<bank> = TCA8418_register(self, ...)
NewRegister ==
    /\ pc \in BankNames
    /\ LET m == RegisterInit(Machine, Bank[pc])
       IN  /\ regs' = m.regs
           /\ fifo' = m.fifo
           /\ log' = m.log
    /\ pc' = AfterRegister(pc)
    /\ prev' = regs
    /\ UNCHANGED <<handle, ctx, last, result, ops, logged, returned>>

\* _ = self.gpio_int_status
DiscardStatus ==
    /\ pc = "discard"
    /\ LET m == InitDiscardStatus(Machine)
       IN  /\ regs' = m.regs
           /\ fifo' = m.fifo
           /\ log' = m.log
    /\ pc' = "gpio_direction"
    /\ prev' = regs
    /\ UNCHANGED <<handle, ctx, last, result, ops, logged, returned>>

\* while self.events_count: _ = self.next_event
DrainLoop ==
    /\ pc = "drain"
    /\ LET s == InitDrainStep(Machine)
       IN  /\ regs' = s.m.regs
           /\ fifo' = s.m.fifo
           /\ log' = s.m.log
           /\ result' = [err |-> s.err, val |-> FALSE]
           /\ pc' = IF s.err # "none" THEN "raised"
                    ELSE IF s.done THEN "reset" ELSE "drain"
           /\ returned' = IF ~s.done /\ s.err = "none"
                          THEN Append(returned, s.val) ELSE returned
    /\ prev' = regs
    /\ UNCHANGED <<handle, ctx, last, ops, logged>>

ResetInterrupts ==
    /\ pc = "reset"
    /\ LET m == InitResetInterrupts(Machine)
       IN  /\ regs' = m.regs
           /\ fifo' = m.fifo
           /\ log' = m.log
    /\ pc' = "gpi_int"
    /\ prev' = regs
    /\ UNCHANGED <<handle, ctx, last, result, ops, logged, returned>>

ClearGpiInt ==
    /\ pc = "gpi_int"
    /\ LET m == InitClearGpi(Machine)
       IN  /\ regs' = m.regs
           /\ fifo' = m.fifo
           /\ log' = m.log
    /\ pc' = "ready"
    /\ prev' = regs
    /\ UNCHANGED <<handle, ctx, last, result, ops, logged, returned>>

Next ==
    \/ NewRegister
    \/ DiscardStatus
    \/ DrainLoop
    \/ ResetInterrupts
    \/ ClearGpiInt
    \/ \E e \in KeyEvents : HwLogEvent(e)

Spec == Init /\ [][Next]_vars

-----------------------------------------------------------------------------
(* SpecBank: get and set on the banks of a constructed device *)

\* pin indices the caller passes: the 18 pins and one index on each side
PinInputs == -1..18

\* the device right after construction on a chip left in any state
Constructed(seed) ==
    [TCA8418Init([regs |-> PowerUpRegs(seed, 0), fifo |-> <<>>, log |-> <<>>])
        EXCEPT !.log = <<>>]

\* values the application has written to every pin of every writable bank
\* before: true (kind 1), or values that differ from pin to pin and from
\* bank to bank (kind 2); kind 0 writes nothing
PreloadValue(kind, i, p) == IF kind = 1 THEN TRUE ELSE (p + i) % 3 = 0

\* tca.<bank i>[q] = ... for q = p .. 17
RECURSIVE PreloadPins(_, _, _, _)
PreloadPins(m, kind, i, p) ==
    IF p > 17 THEN m
    ELSE LET r == RegisterSetItem(m, Bank[ConstructOrder[i]], p,
                                  PreloadValue(kind, i, p))
         IN  IF r.err # "none" THEN r.m
             ELSE PreloadPins(r.m, kind, i, p + 1)

PreloadBank(m, kind, i) ==
    IF kind = 0 \/ Bank[ConstructOrder[i]].ro THEN m
    ELSE [PreloadPins(m, kind, i, 0) EXCEPT !.log = <<>>]

\* the register fill of the chip the device was constructed on, and the
\* kind of values the application wrote afterwards
BankStarts == {<<255, 1>>, <<165, 2>>}

\* the device after construction and after the application has set pins
\* through the writable banks, one bank after the other (banks 2 and 7 of
\* ConstructOrder are read-only)

InitBank ==
    /\ \E st \in BankStarts :
       LET seed == st[1]
           kind == st[2]
       IN
       \E c \in {Constructed(seed)} :
       \E b1 \in {PreloadBank(c, kind, 1)} :
       \E b3 \in {PreloadBank(b1, kind, 3)} :
       \E b4 \in {PreloadBank(b3, kind, 4)} :
       \E b5 \in {PreloadBank(b4, kind, 5)} :
       \E b6 \in {PreloadBank(b5, kind, 6)} :
       \E b8 \in {PreloadBank(b6, kind, 8)} :
       \E b9 \in {PreloadBank(b8, kind, 9)} :
       \E b10 \in {PreloadBank(b9, kind, 10)} :
          regs = PreloadBank(b10, kind, 11).regs
    /\ fifo = <<>>
    /\ pc = "ready"
    /\ log = <<>>
    /\ last = NoOp
    /\ result = NoResult
    /\ ops = 0
    /\ logged = <<>>
    /\ returned = <<>>
    /\ prev = regs
    /\ handle = NoHandle
    /\ ctx = NoCtx

\* tca.<b>[p] = v
BankSet(b, p, v) ==
    /\ pc = "ready"
    /\ ops < MaxOps
    /\ LET r == RegisterSetItem(Fresh, Bank[b], p, v)
       IN  /\ regs' = r.m.regs
           /\ fifo' = r.m.fifo
           /\ log' = r.m.log
           /\ result' = [err |-> r.err, val |-> FALSE]
    /\ last' = [op |-> "set", bank |-> b, pin |-> p, val |-> v]
    /\ ops' = ops + 1
    /\ prev' = regs
    /\ UNCHANGED <<handle, ctx, pc, logged, returned>>

\* tca.<b>[p]
BankGet(b, p) ==
    /\ pc = "ready"
    /\ ops < MaxOps
    /\ LET r == RegisterGetItem(Fresh, Bank[b], p)
       IN  /\ regs' = r.m.regs
           /\ fifo' = r.m.fifo
           /\ log' = r.m.log
           /\ result' = [err |-> r.err, val |-> r.val]
    /\ last' = [op |-> "get", bank |-> b, pin |-> p, val |-> FALSE]
    /\ ops' = ops + 1
    /\ prev' = regs
    /\ UNCHANGED <<handle, ctx, pc, logged, returned>>

\* int(tca.<b>)
BankIndex(b) ==
    /\ pc = "ready"
    /\ ops < MaxOps
    /\ LET r == RegisterIndex(Fresh, Bank[b])
       IN  /\ regs' = r.m.regs
           /\ fifo' = r.m.fifo
           /\ log' = r.m.log
           /\ result' = [err |-> r.err, val |-> r.val]
    /\ last' = [op |-> "index", bank |-> b, pin |-> 0, val |-> FALSE]
    /\ ops' = ops + 1
    /\ prev' = regs
    /\ UNCHANGED <<handle, ctx, pc, logged, returned>>

NextBank ==
    \/ \E b \in BankNames, p \in PinInputs, v \in BOOLEAN : BankSet(b, p, v)
    \/ \E b \in BankNames, p \in PinInputs : BankGet(b, p)
    \/ \E b \in BankNames : BankIndex(b)

SpecBank == InitBank /\ [][NextBank]_vars

-----------------------------------------------------------------------------
(* SpecFifo: the event FIFO and the interrupt flags of a constructed       *)
(* device whose application has routed a pin to the FIFO                   *)

\* the routing the application set up: pin 0 as a keypad pin, or pin 17 as
\* a GPIO pin in event mode
Routings == {<<"keypad_mode", 0>>, <<"event_mode_fifo", 17>>}

Routed(seed, rt) ==
    [RegisterSetItem(Constructed(seed), Bank[rt[1]], rt[2], TRUE).m
        EXCEPT !.log = <<>>]

\* the chip the device was constructed on: one with a key-lock bit of the
\* count register set
FifoSeeds == {165}

\* interrupt flags the chip has raised since: none or all
RaisedFlags == {0, 31}

InitFifo ==
    /\ \E seed \in FifoSeeds, rt \in Routings, ints \in RaisedFlags :
          regs = [Routed(seed, rt).regs EXCEPT ![REG_INTSTAT] = ints]
    /\ fifo \in SeqsUpTo(KeyEvents, MaxLogged)
    /\ pc = "ready"
    /\ log = <<>>
    /\ last = NoOp
    /\ result = NoResult
    /\ ops = 0
    /\ logged = fifo
    /\ returned = <<>>
    /\ prev = regs
    /\ handle = NoHandle
    /\ ctx = NoCtx

\* tca.next_event
DoNextEvent ==
    /\ pc = "ready"
    /\ LET r == NextEvent(Fresh)
       IN  /\ regs' = r.m.regs
           /\ fifo' = r.m.fifo
           /\ log' = r.m.log
           /\ result' = [err |-> r.err, val |-> r.val]
           /\ returned' = IF r.err = "none" THEN Append(returned, r.val)
                          ELSE returned
    /\ last' = [NoOp EXCEPT !.op = "next_event"]
    /\ prev' = regs
    /\ UNCHANGED <<handle, ctx, pc, ops, logged>>

\* tca.events_count
DoEventsCount ==
    /\ pc = "ready"
    /\ LET r == EventsCount(Fresh)
       IN  /\ regs' = r.m.regs
           /\ fifo' = r.m.fifo
           /\ log' = r.m.log
           /\ result' = [err |-> r.err, val |-> r.val]
    /\ last' = [NoOp EXCEPT !.op = "events_count"]
    /\ prev' = regs
    /\ UNCHANGED <<handle, ctx, pc, ops, logged, returned>>

\* tca.<f> = v, for an interrupt status flag f
FlagSet(f, v) ==
    /\ pc = "ready"
    /\ LET r == RWBitSet(Fresh, REG_INTSTAT, FlagBit[f], v)
       IN  /\ regs' = r.m.regs
           /\ fifo' = r.m.fifo
           /\ log' = r.m.log
           /\ result' = [err |-> r.err, val |-> FALSE]
    /\ last' = [op |-> "flag_set", bank |-> f, pin |-> 0, val |-> v]
    /\ prev' = regs
    /\ UNCHANGED <<handle, ctx, pc, ops, logged, returned>>

\* tca.<f>, for an interrupt status flag f
FlagGet(f) ==
    /\ pc = "ready"
    /\ LET r == RWBitGet(Fresh, REG_INTSTAT, FlagBit[f])
       IN  /\ regs' = r.m.regs
           /\ fifo' = r.m.fifo
           /\ log' = r.m.log
           /\ result' = [err |-> r.err, val |-> r.val]
    /\ last' = [op |-> "flag_get", bank |-> f, pin |-> 0, val |-> FALSE]
    /\ prev' = regs
    /\ UNCHANGED <<handle, ctx, pc, ops, logged, returned>>

NextFifo ==
    \/ DoNextEvent
    \/ DoEventsCount
    \/ \E f \in Flags, v \in BOOLEAN : FlagSet(f, v)
    \/ \E f \in Flags : FlagGet(f)
    \/ \E e \in KeyEvents : HwLogEvent(e)

SpecFifo == InitFifo /\ [][NextFifo]_vars

-----------------------------------------------------------------------------
(* Properties of the register banks, checked under SpecBank *)

Pins == 0..17

\* what tca.<b>[q] would return in the current state
Reads(b, q) == RegisterGetItem(Fresh, Bank[b], q).val

\* what tca.<b>[q] would have returned when the last operation started
ReadBefore(b, q) == RegisterGetItem([Fresh EXCEPT !.regs = prev], Bank[b], q).val

\* C1: on every writable bank, whether it inverts or not, a set of pin p to
\* v that succeeds is followed by a get of pin p that returns v; and a set
\* of a pin in 0..17 on a writable bank succeeds.
C1_RoundTrip ==
    (last.op = "set" /\ last.bank \in WritableBanks /\ last.pin \in Pins)
        => /\ result.err = "none"
           /\ RegisterGetItem(Fresh, Bank[last.bank], last.pin).err = "none"
           /\ Reads(last.bank, last.pin) = last.val

\* C1 witness: a set on an inverting bank wrote a value next to pins that
\* hold the opposite value
C1_Witness ==
    /\ last.op = "set" /\ result.err = "none"
    /\ Bank[last.bank].invert
    /\ last.pin = 16
    /\ Reads(last.bank, 17) # last.val

\* C2: a set of pin p leaves what every other pin q of the same bank reads
\* unchanged, the pins in p's register included.
C2_BitIsolation ==
    last.op = "set" =>
        \A q \in Pins \ {last.pin} : Reads(last.bank, q) = ReadBefore(last.bank, q)

\* C2 witness: a set changed its pin while the two pins next to it in the
\* same register hold the value it replaced
C2_Witness ==
    /\ last.op = "set" /\ result.err = "none"
    /\ last.pin = 9
    /\ Len(log) = 2
    /\ Reads(last.bank, 8) # last.val
    /\ Reads(last.bank, 10) # last.val
    /\ Reads(last.bank, 9) = last.val
    /\ ReadBefore(last.bank, 9) # last.val

\* C3: a set on a read-only bank raises the read-only error for every pin
\* index and value, without any transport access and without changing a
\* register.
C3_ReadOnly ==
    (last.op = "set" /\ last.bank \in ReadOnlyBanks) =>
        /\ result.err = "NotImplementedError"
        /\ log = <<>>
        /\ regs = prev

\* C3 witness: a set on a read-only bank has been attempted
C3_Witness ==
    /\ last.op = "set"
    /\ last.bank = "input_value"
    /\ last.pin = 3
    /\ last.val
    /\ result.err = "NotImplementedError"

\* C4 as stated: a get or set with a pin index outside 0..17 raises the
\* range error on every bank, before any transport access.
C4_RangeErrorAlways ==
    (last.op \in {"get", "set"} /\ ~PinInRange(last.pin))
        => result.err = "ValueError" /\ log = <<>>

\* C4 as amended: a get or set with a pin index outside 0..17 is rejected
\* before any transport access: with the range error, except that a set on
\* a read-only bank raises the read-only error.
C4_RangeError ==
    (last.op \in {"get", "set"} /\ ~PinInRange(last.pin))
        => /\ log = <<>>
           /\ result.err = IF last.op = "set" /\ Bank[last.bank].ro
                           THEN "NotImplementedError" ELSE "ValueError"

\* C4 witness: a set with pin index 18 on a writable, inverting bank
C4_Witness ==
    /\ last.op = "set"
    /\ last.pin = 18
    /\ last.bank = "pullup"
    /\ result.err = "ValueError"

-----------------------------------------------------------------------------
(* Properties of the construction, checked under Spec *)

\* the transport accesses of kind k ("R" or "W") to addr, as positions of log
Accesses(k, addr) == {i \in DOMAIN log : log[i] = <<k, addr>>}

\* C5: when construction completes, events_count is 0 and each of the five
\* interrupt status flags reads false, whatever the chip held before.
C5_CleanAfterInit ==
    pc = "ready" =>
        /\ EventsCount(Fresh).val = 0
        /\ \A f \in Flags : ~RWBitGet(Fresh, REG_INTSTAT, FlagBit[f]).val

\* C5 witness: construction completed on a chip that had events pending or
\* logged some meanwhile, after the write to the interrupt status register
C5_Witness ==
    /\ pc = "ready"
    /\ Len(returned) >= 2
    /\ Accesses("W", REG_INTSTAT) # {}

\* C9: when construction completes, every pin is an input in GPIO mode with
\* output value low, pull-up and debounce enabled, interrupt on falling
\* edge, interrupt disabled and FIFO routing disabled.
C9_DefaultsAfterInit ==
    pc = "ready" =>
        \A p \in Pins :
            /\ ~Reads("gpio_direction", p)
            /\ Reads("gpio_mode", p)
            /\ ~Reads("keypad_mode", p)
            /\ ~Reads("output_value", p)
            /\ Reads("pullup", p)
            /\ Reads("debounce", p)
            /\ ~Reads("int_on_rising", p)
            /\ ~Reads("enable_int", p)
            /\ ~Reads("event_mode_fifo", p)

\* C9 witness: construction completed on a chip whose registers were all
\* ones before (the input registers, which the chip owns, still are)
C9_Witness ==
    /\ pc = "ready"
    /\ regs[REG_GPIODATSTAT1] = 255

\* C10: once construction is past the discarded read of gpio_int_status,
\* each of the registers 0x11..0x13 has been read exactly once, after the
\* interrupt-enable bank was written and before the direction bank is.
C10_StatusReadOnce ==
    pc \notin {"enable_int", "gpio_int_status", "discard"} =>
        \A k \in 0..2 :
            /\ Cardinality(Accesses("R", REG_GPIOINTSTAT1 + k)) = 1
            /\ \A i \in Accesses("R", REG_GPIOINTSTAT1 + k) :
                  /\ \E j \in Accesses("W", REG_INTEN1 + 2) : j < i
                  /\ \A j \in Accesses("W", REG_GPIODIR1) : i < j

-----------------------------------------------------------------------------
(* Properties of the event FIFO and the interrupt flags, under SpecFifo *)

\* C6: a next_event call made when events_count is n > 0 succeeds and leaves
\* events_count at n - 1; one made when events_count is 0 raises the empty
\* queue error without reading the FIFO register.  So from events_count = n
\* and no event logged meanwhile, exactly n calls succeed and the next fails.
C6_DrainCount ==
    [][DoNextEvent =>
          LET n == EventsCount(Fresh).val
          IN  IF n > 0
              THEN /\ result'.err = "none"
                   /\ EventsCount([Fresh EXCEPT !.regs = regs',
                                                !.fifo = fifo']).val = n - 1
              ELSE /\ result'.err = "RuntimeError"
                   /\ \A i \in DOMAIN log' : log'[i] # <<"R", REG_KEYEVENT>>
                   /\ fifo' = fifo]_vars

\* C6 witness: three calls have succeeded, the FIFO is empty and the call
\* after them raised the empty queue error
C6_Witness ==
    /\ last.op = "next_event"
    /\ result.err = "RuntimeError"
    /\ Len(returned) = 3
    /\ fifo = <<>>

\* C7: the values successful next_event calls have returned, followed by the
\* entries still pending, are the events in the order the chip logged them:
\* none skipped, none returned twice; and a successful call made exactly one
\* read of the FIFO register and returned what it read.
C7_FifoOrder ==
    /\ returned \o fifo = logged
    /\ (last.op = "next_event" /\ result.err = "none") =>
          /\ Cardinality(Accesses("R", REG_KEYEVENT)) = 1
          /\ returned # <<>>
          /\ result.val = returned[Len(returned)]

\* C7 witness: two different events were returned, then a third was logged
C7_Witness ==
    /\ last.op = "next_event" /\ result.err = "none"
    /\ Len(returned) = 2
    /\ returned[1] # returned[2]
    /\ Len(fifo) = 1

\* C8: writing true to an interrupt status flag leaves that flag clear and
\* every other flag of the register as it was.
C8_WriteOneToClear ==
    (last.op = "flag_set" /\ last.val) =>
        regs[REG_INTSTAT] = AndNotBit(prev[REG_INTSTAT], FlagBit[last.bank])

-----------------------------------------------------------------------------
(* DigitalInOut: the pin handle.  A handle h is [bound, pin, dir]: dir is  *)
(* its attribute _dir, "unset" until the direction setter has assigned it. *)
(* An operation returns [err, val, m, h].                                  *)

\* digitalio.Direction, and a value that is neither of the two
Directions == {"INPUT", "OUTPUT", "other"}

\* digitalio.Pull and None
Pulls == {"UP", "None", "DOWN"}

\* DigitalInOutInit setting the mode through keypad_mode instead
DigitalInOutInit_KeypadMode(m, pin_number) ==
    LET r == RegisterSetItem(m, Bank.keypad_mode, pin_number, TRUE)
    IN  [err |-> r.err, val |-> FALSE, m |-> r.m,
         h   |-> IF r.err = "none"
                 THEN [bound |-> TRUE, pin |-> pin_number, dir |-> "unset"]
                 ELSE NoHandle]

(* DigitalInOut.__init__ *)
DigitalInOutInit(m, pin_number) ==
    LET r == RegisterSetItem(m, Bank.gpio_mode, pin_number, TRUE)
    IN  [err |-> r.err, val |-> FALSE, m |-> r.m,
         h   |-> IF r.err = "none"
                 THEN [bound |-> TRUE, pin |-> pin_number, dir |-> "unset"]
                 ELSE NoHandle]

(* TCA8418.get_pin; asserts tells whether the interpreter executes assert  *)
(* statements                                                              *)
GetPin(m, pin, asserts) ==
    IF asserts /\ ~(0 <= pin /\ pin <= 17)
    THEN [err |-> "AssertionError", val |-> FALSE, m |-> m, h |-> NoHandle]
    ELSE DigitalInOutInit(m, pin)

(* DigitalInOut.value, getter and setter *)
ValueGet(m, h) ==
    LET r == RegisterGetItem(m, Bank.input_value, h.pin)
    IN  [err |-> r.err, val |-> r.val, m |-> r.m, h |-> h]

ValueSet(m, h, val) ==
    LET r == RegisterSetItem(m, Bank.output_value, h.pin, val)
    IN  [err |-> r.err, val |-> FALSE, m |-> r.m, h |-> h]

(* DigitalInOut.direction, getter and setter *)
DirectionGet(m, h) ==
    IF h.dir = "unset"
    THEN [err |-> "AttributeError", val |-> "unset", m |-> m, h |-> h]
    ELSE [err |-> "none", val |-> h.dir, m |-> m, h |-> h]

DirectionSet(m, h, val) ==
    IF val \notin {"INPUT", "OUTPUT"}
    THEN [err |-> "ValueError", val |-> FALSE, m |-> m, h |-> h]
    ELSE LET r == RegisterSetItem(m, Bank.gpio_direction, h.pin, val = "OUTPUT")
         IN  [err |-> r.err, val |-> FALSE, m |-> r.m,
              h   |-> IF r.err = "none" THEN [h EXCEPT !.dir = val] ELSE h]

(* DigitalInOut.pull, getter and setter *)
PullGet(m, h) ==
    LET r == RegisterGetItem(m, Bank.pullup, h.pin)
    IN  [err |-> r.err, val |-> IF r.val THEN "UP" ELSE "None", m |-> r.m,
         h   |-> h]

\* PullSet taking every request other than none as a request for pull-up
PullSet_DownAsUp(m, h, val) ==
    LET r == RegisterSetItem(m, Bank.pullup, h.pin, val # "None")
    IN  [err |-> r.err, val |-> FALSE, m |-> r.m, h |-> h]

PullSet(m, h, val) ==
    IF val \in {"UP", "None"}
    THEN LET r == RegisterSetItem(m, Bank.pullup, h.pin, val = "UP")
         IN  [err |-> r.err, val |-> FALSE, m |-> r.m, h |-> h]
    ELSE [err |-> "NotImplementedError", val |-> FALSE, m |-> m, h |-> h]

(* DigitalInOut.switch_to_output / switch_to_input *)
SwitchToOutput(m, h, value) ==
    LET d == DirectionSet(m, h, "OUTPUT")
    IN  IF d.err # "none" THEN d ELSE ValueSet(d.m, d.h, value)

SwitchToInput(m, h, pull) ==
    LET d == DirectionSet(m, h, "INPUT")
    IN  IF d.err # "none" THEN d ELSE PullSet(d.m, d.h, pull)

-----------------------------------------------------------------------------
(* SpecPin: one pin handle of a constructed device whose application has   *)
(* written to the banks before, and writes to them directly meanwhile      *)

\* the banks the application also writes directly, for the handle's pin
DirectBanks == {"gpio_direction", "pullup"}

\* pin = tca.get_pin(i)
DoGetPin(i, asserts) ==
    /\ pc = "ready"
    /\ ~handle.bound
    /\ LET r == GetPin(Fresh, i, asserts)
       IN  /\ regs' = r.m.regs
           /\ fifo' = r.m.fifo
           /\ log' = r.m.log
           /\ result' = [err |-> r.err, val |-> FALSE]
           /\ handle' = r.h
    /\ last' = [op |-> "get_pin", bank |-> "none", pin |-> i, val |-> asserts]
    /\ prev' = regs
    /\ UNCHANGED <<ctx, pc, ops, logged, returned>>

\* pin.switch_to_output(value=v)
DoSwitchToOutput(v) ==
    /\ pc = "ready"
    /\ handle.bound
    /\ LET r == SwitchToOutput(Fresh, handle, v)
       IN  /\ regs' = r.m.regs
           /\ fifo' = r.m.fifo
           /\ log' = r.m.log
           /\ result' = [err |-> r.err, val |-> FALSE]
           /\ handle' = r.h
    /\ last' = [op |-> "switch_to_output", bank |-> "none", pin |-> handle.pin,
                val |-> v]
    /\ prev' = regs
    /\ UNCHANGED <<ctx, pc, ops, logged, returned>>

\* pin.switch_to_input(pull=pl)
DoSwitchToInput(pl) ==
    /\ pc = "ready"
    /\ handle.bound
    /\ LET r == SwitchToInput(Fresh, handle, pl)
       IN  /\ regs' = r.m.regs
           /\ fifo' = r.m.fifo
           /\ log' = r.m.log
           /\ result' = [err |-> r.err, val |-> FALSE]
           /\ handle' = r.h
    /\ last' = [op |-> "switch_to_input", bank |-> pl, pin |-> handle.pin,
                val |-> FALSE]
    /\ prev' = regs
    /\ UNCHANGED <<ctx, pc, ops, logged, returned>>

\* pin.value = v
DoValueSet(v) ==
    /\ pc = "ready"
    /\ handle.bound
    /\ LET r == ValueSet(Fresh, handle, v)
       IN  /\ regs' = r.m.regs
           /\ fifo' = r.m.fifo
           /\ log' = r.m.log
           /\ result' = [err |-> r.err, val |-> FALSE]
           /\ handle' = r.h
    /\ last' = [op |-> "value_set", bank |-> "none", pin |-> handle.pin,
                val |-> v]
    /\ prev' = regs
    /\ UNCHANGED <<ctx, pc, ops, logged, returned>>

\* pin.value
DoValueGet ==
    /\ pc = "ready"
    /\ handle.bound
    /\ LET r == ValueGet(Fresh, handle)
       IN  /\ regs' = r.m.regs
           /\ fifo' = r.m.fifo
           /\ log' = r.m.log
           /\ result' = [err |-> r.err, val |-> r.val]
           /\ handle' = r.h
    /\ last' = [op |-> "value_get", bank |-> "none", pin |-> handle.pin,
                val |-> FALSE]
    /\ prev' = regs
    /\ UNCHANGED <<ctx, pc, ops, logged, returned>>

\* pin.direction = d
DoDirectionSet(d) ==
    /\ pc = "ready"
    /\ handle.bound
    /\ LET r == DirectionSet(Fresh, handle, d)
       IN  /\ regs' = r.m.regs
           /\ fifo' = r.m.fifo
           /\ log' = r.m.log
           /\ result' = [err |-> r.err, val |-> FALSE]
           /\ handle' = r.h
    /\ last' = [op |-> "direction_set", bank |-> d, pin |-> handle.pin,
                val |-> FALSE]
    /\ prev' = regs
    /\ UNCHANGED <<ctx, pc, ops, logged, returned>>

\* pin.direction
DoDirectionGet ==
    /\ pc = "ready"
    /\ handle.bound
    /\ LET r == DirectionGet(Fresh, handle)
       IN  /\ regs' = r.m.regs
           /\ fifo' = r.m.fifo
           /\ log' = r.m.log
           /\ result' = [err |-> r.err, val |-> r.val]
           /\ handle' = r.h
    /\ last' = [op |-> "direction_get", bank |-> "none", pin |-> handle.pin,
                val |-> FALSE]
    /\ prev' = regs
    /\ UNCHANGED <<ctx, pc, ops, logged, returned>>

\* pin.pull = pl
DoPullSet(pl) ==
    /\ pc = "ready"
    /\ handle.bound
    /\ LET r == PullSet(Fresh, handle, pl)
       IN  /\ regs' = r.m.regs
           /\ fifo' = r.m.fifo
           /\ log' = r.m.log
           /\ result' = [err |-> r.err, val |-> FALSE]
           /\ handle' = r.h
    /\ last' = [op |-> "pull_set", bank |-> pl, pin |-> handle.pin,
                val |-> FALSE]
    /\ prev' = regs
    /\ UNCHANGED <<ctx, pc, ops, logged, returned>>

\* pin.pull
DoPullGet ==
    /\ pc = "ready"
    /\ handle.bound
    /\ LET r == PullGet(Fresh, handle)
       IN  /\ regs' = r.m.regs
           /\ fifo' = r.m.fifo
           /\ log' = r.m.log
           /\ result' = [err |-> r.err, val |-> r.val]
           /\ handle' = r.h
    /\ last' = [op |-> "pull_get", bank |-> "none", pin |-> handle.pin,
                val |-> FALSE]
    /\ prev' = regs
    /\ UNCHANGED <<ctx, pc, ops, logged, returned>>

\* tca.<b>[pin] = v, written past the handle for the handle's pin
DirectSet(b, v) ==
    /\ pc = "ready"
    /\ handle.bound
    /\ LET r == RegisterSetItem(Fresh, Bank[b], handle.pin, v)
       IN  /\ regs' = r.m.regs
           /\ fifo' = r.m.fifo
           /\ log' = r.m.log
           /\ result' = [err |-> r.err, val |-> FALSE]
    /\ last' = [op |-> "set", bank |-> b, pin |-> handle.pin, val |-> v]
    /\ prev' = regs
    /\ UNCHANGED <<handle, ctx, pc, ops, logged, returned>>

NextPin ==
    \/ \E i \in PinInputs, asserts \in BOOLEAN : DoGetPin(i, asserts)
    \/ \E v \in BOOLEAN : DoSwitchToOutput(v)
    \/ \E pl \in Pulls : DoSwitchToInput(pl)
    \/ \E v \in BOOLEAN : DoValueSet(v)
    \/ DoValueGet
    \/ \E d \in Directions : DoDirectionSet(d)
    \/ DoDirectionGet
    \/ \E pl \in Pulls : DoPullSet(pl)
    \/ DoPullGet
    \/ \E b \in DirectBanks, v \in BOOLEAN : DirectSet(b, v)

SpecPin == InitBank /\ [][NextPin]_vars

-----------------------------------------------------------------------------
(* Properties of the pin handle, checked under SpecPin *)

\* the register and the bit of pin p in the bank at base
PinReg(base, p) == base + (p \div 8)

PinBit(p) == p % 8

\* C11: an operation that fails with an error leaves every hardware
\* register and the FIFO as they were when it started; in particular a
\* switch_to_input with a pull-down request changes no register.
C11_FailureChangesNothing ==
    result.err # "none" => (regs = prev /\ fifo = logged)

\* C12: on a pin handle, setting pull to up makes pullup[pin] read true,
\* setting it to none makes pullup[pin] read false, any other request raises
\* the unsupported-configuration error without a write to the pull-up bank;
\* reading pull returns up exactly when pullup[pin] reads true, else none.
C12_Pull ==
    /\ (last.op = "pull_set" /\ last.bank = "UP") =>
          (result.err = "none" /\ Reads("pullup", last.pin))
    /\ (last.op = "pull_set" /\ last.bank = "None") =>
          (result.err = "none" /\ ~Reads("pullup", last.pin))
    /\ (last.op = "pull_set" /\ last.bank = "DOWN") =>
          /\ result.err = "NotImplementedError"
          /\ \A k \in 0..2 : Accesses("W", REG_GPIOPULL1 + k) = {}
          /\ \A k \in 0..2 : regs[REG_GPIOPULL1 + k] = prev[REG_GPIOPULL1 + k]
    /\ last.op = "pull_get" =>
          /\ result.err = "none"
          /\ result.val = IF Reads("pullup", last.pin) THEN "UP" ELSE "None"
          /\ (result.val = "UP") =
                ~TestBit(regs[PinReg(REG_GPIOPULL1, last.pin)], PinBit(last.pin))

\* C12 witness: pull was set to up on a pin whose pull-up was off, next to a
\* pin whose pull-up is off
C12_Witness ==
    /\ last.op = "pull_set" /\ last.bank = "UP"
    /\ last.pin = 16
    /\ ~ReadBefore("pullup", 16)
    /\ ~Reads("pullup", 17)
    /\ Len(log) = 2

\* C13: get_pin(i) with i outside 0..17 fails on the range check without any
\* transport access and binds no handle; with i in 0..17 it returns a handle
\* bound to pin i, pin i is in GPIO mode afterwards, and no register bit
\* other than the mode bit of pin i has changed.
C13_GetPin ==
    last.op = "get_pin" =>
        IF ~PinInRange(last.pin)
        THEN /\ result.err \in {"AssertionError", "ValueError"}
             /\ log = <<>>
             /\ regs = prev
             /\ ~handle.bound
        ELSE /\ result.err = "none"
             /\ handle.bound /\ handle.pin = last.pin
             /\ Reads("gpio_mode", last.pin)
             /\ \A a \in RegAddrs :
                   regs[a] = IF a = PinReg(REG_KPGPIO1, last.pin)
                             THEN AndNotBit(prev[a], PinBit(last.pin))
                             ELSE prev[a]
             /\ \A q \in Pins \ {last.pin} :
                   Reads("gpio_mode", q) = ReadBefore("gpio_mode", q)

\* C13 witness: get_pin took a pin out of keypad mode while its neighbour in
\* the same register stays in keypad mode
C13_Witness ==
    /\ last.op = "get_pin" /\ result.err = "none"
    /\ last.pin = 9
    /\ ~ReadBefore("gpio_mode", 9)
    /\ ~Reads("gpio_mode", 8)
    /\ Reads("gpio_mode", 9)

\* C17: the direction a pin handle reports is the pin's current bit in the
\* gpio_direction bank (input for 0, output for 1), also after direction
\* writes made through the bank, and as soon as the handle exists.
C17_DirectionFromHardware ==
    last.op = "direction_get" =>
        /\ result.err = "none"
        /\ result.val = IF Reads("gpio_direction", last.pin)
                        THEN "OUTPUT" ELSE "INPUT"

-----------------------------------------------------------------------------
(* The order of the steps of the construction, checked under Spec *)

\* the banks __init__ writes, in the order it constructs them
WrittenBanks ==
    <<"enable_int", "gpio_direction", "gpio_mode", "output_value", "pullup",
      "debounce", "int_on_rising", "event_mode_fifo">>

\* the transport accesses of the bank constructions: three writes per bank,
\* lowest register first
BankWrites ==
    [i \in 1..(3 * Len(WrittenBanks)) |->
        <<"W", Bank[WrittenBanks[((i - 1) \div 3) + 1]].base + ((i - 1) % 3)>>]

\* the transport accesses of n passes through the drain loop: the test of
\* events_count, the test inside next_event, the read of the FIFO register
RECURSIVE DrainReads(_)
DrainReads(n) ==
    IF n = 0 THEN <<>>
    ELSE <<<<"R", REG_KEYLCKEC>>, <<"R", REG_KEYLCKEC>>, <<"R", REG_KEYEVENT>>>>
         \o DrainReads(n - 1)

\* the transport accesses from the end of the drain loop up to statement p
AfterDrain(p) ==
    IF p = "drain" THEN <<>>
    ELSE IF p = "reset" THEN <<<<"R", REG_KEYLCKEC>>>>
    ELSE IF p = "gpi_int" THEN <<<<"R", REG_KEYLCKEC>>, <<"W", REG_INTSTAT>>>>
    ELSE <<<<"R", REG_KEYLCKEC>>, <<"W", REG_INTSTAT>>,
           <<"R", REG_INTSTAT>>, <<"W", REG_INTSTAT>>>>

IsPrefix(s, t) == Len(s) <= Len(t) /\ s = SubSeq(t, 1, Len(s))

\* C14: construction writes the interrupt-enable bank to 0 first, then the
\* direction, mode, output-value, pull-up, debounce, interrupt-level and
\* FIFO-routing banks in that order, three registers each; only then it
\* drains the FIFO; after the drain it writes the interrupt status register
\* and last it clears the GPI flag.  No FIFO read precedes the write that
\* disables FIFO routing, no interrupt status write precedes the end of the
\* drain.
C14_InitOrder ==
    /\ pc \in BankNames \cup {"discard"} =>
          /\ IsPrefix(log, BankWrites)
          /\ Len(log) % 3 = 0
    /\ pc \in {"drain", "reset", "gpi_int", "ready"} =>
          log = BankWrites \o DrainReads(Len(returned)) \o AfterDrain(pc)
    /\ \A i \in 1..Len(WrittenBanks) :
          Accesses("W", Bank[WrittenBanks[i]].base + 2) # {} =>
              \A k \in 0..2 : regs[Bank[WrittenBanks[i]].base + k] = 0
    /\ \A i \in Accesses("R", REG_KEYEVENT) :
          \E j \in Accesses("W", REG_EVTMODE1 + 2) : j < i
    /\ \A i \in Accesses("W", REG_INTSTAT) :
          /\ pc \in {"gpi_int", "ready"}
          /\ \A j \in Accesses("R", REG_KEYEVENT) \cup Accesses("R", REG_KEYLCKEC) :
                j < i
    /\ pc = "gpi_int" => regs[REG_INTSTAT] = AndNot(prev[REG_INTSTAT], 31)

\* C14 witness: construction completed after draining three events and
\* writing the interrupt status register twice
C14_Witness ==
    /\ pc = "ready"
    /\ Len(returned) = 3
    /\ Cardinality(Accesses("W", REG_INTSTAT)) = 2
    /\ Cardinality(Accesses("R", REG_KEYEVENT)) = 3

-----------------------------------------------------------------------------
(* Bit addressing of the banks, checked under SpecBank *)

\* the hardware bit of pin p of bank b in the register file r
HwBit(r, b, p) == TestBit(r[PinReg(Bank[b].base, p)], PinBit(p))

\* the registers B .. B+2 of bank b
BankRegs(b) == Bank[b].base .. (Bank[b].base + 2)

\* C15: a set of pin p in 0..17 that a bank carries out reads and then
\* writes register B + (p div 8) and nothing else, and leaves bit p mod 8 of
\* it equal to v, or to NOT v on an inverted bank; a get reads register
\* B + (p div 8) and nothing else and returns the bit it read, negated on an
\* inverted bank.  No get or set accesses a register outside B .. B+2.
C15_BitAddressing ==
    LET b == last.bank
        a == PinReg(Bank[b].base, last.pin)
    IN  /\ (last.op = "set" /\ PinInRange(last.pin) /\ ~Bank[b].ro) =>
              /\ result.err = "none"
              /\ log = <<<<"R", a>>, <<"W", a>>>>
              /\ HwBit(regs, b, last.pin)
                    = (IF Bank[b].invert THEN ~last.val ELSE last.val)
        /\ (last.op = "get" /\ PinInRange(last.pin)) =>
              /\ result.err = "none"
              /\ log = <<<<"R", a>>>>
              /\ result.val = (IF Bank[b].invert
                               THEN ~HwBit(prev, b, last.pin)
                               ELSE HwBit(prev, b, last.pin))
        /\ last.op \in {"get", "set"} =>
              \A i \in DOMAIN log : log[i][2] \in BankRegs(b)

\* C15 witness: a set of pin 17 to true on an inverted bank cleared bit 1 of
\* register B+2, which was set
C15_Witness ==
    /\ last.op = "set" /\ result.err = "none"
    /\ last.pin = 17 /\ last.val
    /\ Bank[last.bank].invert
    /\ TestBit(prev[Bank[last.bank].base + 2], 1)
    /\ ~TestBit(regs[Bank[last.bank].base + 2], 1)
    /\ log = <<<<"R", Bank[last.bank].base + 2>>, <<"W", Bank[last.bank].base + 2>>>>

\* C16: the integer conversion of a bank reads registers B+2, B+1, B in that
\* order and writes none; it returns a value in 0 .. 2^18-1 whose bit p is
\* the hardware bit of pin p for every pin p in 0..17, whatever bits 2..7 of
\* register B+2 hold; no register changes, except that the chip clears a
\* GPIO interrupt status register that is read.
C16_ReadAll ==
    last.op = "index" =>
        LET b == last.bank
            B == Bank[b].base
        IN  /\ result.err = "none"
            /\ log = <<<<"R", B + 2>>, <<"R", B + 1>>, <<"R", B>>>>
            /\ result.val \in 0..(2 ^ 18 - 1)
            /\ \A p \in Pins : TestBit(result.val, p) = HwBit(prev, b, p)
            /\ \A a \in RegAddrs :
                  regs[a] = IF a \in BankRegs("gpio_int_status") /\ a \in BankRegs(b)
                            THEN 0 ELSE prev[a]

\* C16 witness: a bank whose register B+2 has bits above bit 1 set, and
\* whose pins 16 and 17 differ, was converted
C16_Witness ==
    /\ last.op = "index"
    /\ prev[Bank[last.bank].base + 2] >= 4
    /\ HwBit(prev, last.bank, 16) # HwBit(prev, last.bank, 17)
    /\ result.val < 2 ^ 18

\* C19: for every pin p, gpio_mode[p] is the negation of keypad_mode[p]; a
\* set of pin p on either of the two banks makes the other bank read the
\* negation of the value set for pin p, and changes its reading of no other
\* pin.
C19_ModeViews ==
    /\ \A p \in Pins : Reads("gpio_mode", p) = ~Reads("keypad_mode", p)
    /\ Bank.gpio_mode.base = Bank.keypad_mode.base
    /\ Bank.gpio_mode.invert # Bank.keypad_mode.invert
    /\ (last.op = "set" /\ last.bank \in {"gpio_mode", "keypad_mode"}
           /\ PinInRange(last.pin)) =>
          LET other == IF last.bank = "gpio_mode" THEN "keypad_mode"
                       ELSE "gpio_mode"
          IN  /\ result.err = "none"
              /\ Reads(other, last.pin) = ~last.val
              /\ \A q \in Pins \ {last.pin} :
                    Reads(other, q) = ReadBefore(other, q)

\* C19 witness: a set through keypad_mode took pin 8 out of GPIO mode while
\* pin 9 stays in GPIO mode
C19_Witness ==
    /\ last.op = "set" /\ last.bank = "keypad_mode"
    /\ last.pin = 8 /\ last.val
    /\ ReadBefore("gpio_mode", 8)
    /\ ~Reads("gpio_mode", 8)
    /\ Reads("gpio_mode", 9)

-----------------------------------------------------------------------------
(* SpecRace: two execution contexts each run one tca.<bank>[pin] = val, on *)
(* two pins of the same register.  The bus is held for one _read_reg or    *)
(* one _write_reg at a time, so the statements of _set_reg_bit interleave. *)
(* In mode "locked" the callers serialize the calls with a lock of their   *)
(* own held around the whole of _set_reg_bit; in mode "free" they do not.  *)

Contexts == {1, 2}

\* the banks the contexts write: one that does not invert and one that does
RaceBanks == {"gpio_direction", "pullup"}

\* pairs of pins that share a register, one pair per register of a bank
RacePins == {<<0, 7>>, <<9, 10>>, <<17, 16>>}

RaceModes == {"free", "locked"}

\* temp = self._read_reg(addr)
SetRegBitRead(m, addr) == ReadReg(m, addr)

\* SetRegBitWrite reading the register again instead of using temp
SetRegBitWrite_Reread(m, addr, bitoffset, value, temp) ==
    SetRegBit(m, addr, bitoffset, value)

\* temp |= 1 << bitoffset, or temp &= ~(1 << bitoffset);
\* self._write_reg(addr, temp)
SetRegBitWrite(m, addr, bitoffset, value, temp) ==
    WriteReg(m, addr, IF value THEN OrBit(temp, bitoffset)
                      ELSE AndNotBit(temp, bitoffset))

\* the call tca.<b>[p] = v as it enters _set_reg_bit: __setitem__ has applied
\* the inversion and _set_gpio_register has computed register and bit
EnterSetRegBit(b, p, v) ==
    [bank |-> b, pin |-> p, val |-> v,
     addr |-> PinReg(Bank[b].base, p), bit |-> PinBit(p),
     value |-> IF Bank[b].invert THEN ~v ELSE v,
     pc |-> "read", temp |-> 0, sawOther |-> FALSE]

InitRace ==
    /\ \E st \in BankStarts :
       LET seed == st[1]
           kind == st[2]
       IN
       \E c \in {Constructed(seed)} :
       \E b3 \in {PreloadBank(c, kind, 3)} :
          regs = PreloadBank(b3, kind, 8).regs
    /\ \E b \in RaceBanks, pp \in RacePins, v1 \in BOOLEAN, v2 \in BOOLEAN,
          mode \in RaceModes :
          ctx = [mode |-> mode, owner |-> 0, lastWriter |-> 0,
                 t |-> <<EnterSetRegBit(b, pp[1], v1),
                         EnterSetRegBit(b, pp[2], v2)>>]
    /\ fifo = <<>>
    /\ pc = "ready"
    /\ log = <<>>
    /\ last = NoOp
    /\ result = NoResult
    /\ ops = 0
    /\ logged = <<>>
    /\ returned = <<>>
    /\ prev = regs
    /\ handle = NoHandle

\* context c reads the register; with the callers' lock, only once the lock
\* is free, and c takes it
RaceRead(c) ==
    /\ ctx.t[c].pc = "read"
    /\ ctx.mode = "locked" => ctx.owner = 0
    /\ LET r == SetRegBitRead(Machine, ctx.t[c].addr)
       IN  /\ regs' = r.m.regs
           /\ fifo' = r.m.fifo
           /\ log' = r.m.log
           /\ ctx' = [ctx EXCEPT
                        !.owner = IF ctx.mode = "locked" THEN c ELSE 0,
                        !.t[c].temp = r.val,
                        !.t[c].sawOther = (ctx.lastWriter # 0),
                        !.t[c].pc = "write"]
    /\ UNCHANGED <<handle, pc, last, result, ops, logged, returned, prev>>

\* context c changes its bit in the byte it read and writes the byte back;
\* with the callers' lock, c releases it
RaceWrite(c) ==
    /\ ctx.t[c].pc = "write"
    /\ LET m == SetRegBitWrite(Machine, ctx.t[c].addr, ctx.t[c].bit,
                               ctx.t[c].value, ctx.t[c].temp)
       IN  /\ regs' = m.regs
           /\ fifo' = m.fifo
           /\ log' = m.log
    /\ ctx' = [ctx EXCEPT !.owner = 0, !.lastWriter = c, !.t[c].pc = "done"]
    /\ UNCHANGED <<handle, pc, last, result, ops, logged, returned, prev>>

NextRace ==
    \/ \E c \in Contexts : RaceRead(c)
    \/ \E c \in Contexts : RaceWrite(c)

SpecRace == InitRace /\ [][NextRace]_vars

\* both contexts have returned from their set
RaceDone == \A c \in Contexts : ctx.t[c].pc = "done"

\* the pin context c set reads the value c set
UpdateHolds(c) == Reads(ctx.t[c].bank, ctx.t[c].pin) = ctx.t[c].val

\* the pin context c set reads what it read before either context ran
UpdateLost(c) ==
    Reads(ctx.t[c].bank, ctx.t[c].pin) = ReadBefore(ctx.t[c].bank, ctx.t[c].pin)

\* C18: when each set's read-then-write runs as one critical section, both
\* pins hold their newly written values once both sets have returned, in
\* every interleaving.  Without that, the update of the context that wrote
\* last holds; the other context's update holds if the last writer read the
\* register after it was made, and is lost (the pin is back at its old
\* value) if the last writer had read the register before.
C18_LostUpdate ==
    RaceDone =>
        LET w == ctx.lastWriter
            o == 3 - w
        IN  /\ ctx.mode = "locked" => (UpdateHolds(1) /\ UpdateHolds(2))
            /\ UpdateHolds(w)
            /\ IF ctx.t[w].sawOther THEN UpdateHolds(o) ELSE UpdateLost(o)

\* C18 witness: without serialization both sets have returned and the pin
\* one of them set does not hold the value set
C18_Witness ==
    /\ RaceDone
    /\ ctx.mode = "free"
    /\ \E c \in Contexts : ~UpdateHolds(c) /\ UpdateLost(c)
    /\ Len(log) = 4

-----------------------------------------------------------------------------
(* SpecLive: the construction as a running program.  __init__ is straight  *)
(* line code in one thread: whenever a statement of it is enabled, it is   *)
(* eventually executed.  Nothing makes the chip log an event.              *)

InitStep ==
    \/ NewRegister
    \/ DiscardStatus
    \/ DrainLoop
    \/ ResetInterrupts
    \/ ClearGpiInt

SpecLive == Init /\ [][Next]_vars /\ WF_vars(InitStep)

\* the chip logs nothing in the current state: every pin is in GPIO mode
\* and no pin is routed to the FIFO
ChipQuiet == ~KeypadRouted(regs) /\ ~GpiRouted(regs)

\* C20: construction terminates.  The chip is quiet from the start of the
\* drain loop on; the loop never raises the empty-queue error and exits
\* after reading the FIFO register exactly once per entry that was pending
\* when it started, in their order; and construction reaches its final write
\* of the interrupt status register and completes.
C20_InitTerminates ==
    /\ [](pc # "raised")
    /\ [](pc = "drain" => (ChipQuiet /\ returned \o fifo = logged))
    /\ [][pc = "drain" => logged' = logged]_vars
    /\ [](pc \in {"reset", "gpi_int", "ready"} =>
             /\ fifo = <<>>
             /\ returned = logged
             /\ Cardinality(Accesses("R", REG_KEYEVENT)) = Len(logged))
    /\ <>(pc = "ready" /\ Cardinality(Accesses("W", REG_INTSTAT)) = 2)

\* C20 witness: the drain loop has just exited after reading three entries
C20_Witness ==
    /\ pc = "reset"
    /\ Len(returned) = 3
    /\ fifo = <<>>
    /\ Cardinality(Accesses("R", REG_KEYEVENT)) = 3

=============================================================================
